---- MODULE Spec2Model ----
(***************************************************************************)
(* safe-error: the Either helpers of helpers.ts (left, right, isLeft,      *)
(* isRight, map, mapLeft, chain, pipe, fold, tryCatch, tryCatchAsync,      *)
(* fromNullable, getOrElse), the TaskEither type of types.ts, and the      *)
(* top-level code of examples/4.0.concurrent.ts.                           *)
(*                                                                         *)
(* A caller holds an Either `cur` and applies the helpers to it.  Every    *)
(* helper is an operator that returns a completion record                  *)
(*     [res |-> what the call did, calls |-> log]                          *)
(* where `calls` lists, in order, the callbacks the helper invoked and the *)
(* arguments it passed to them, so that "f is not invoked" is observable.  *)
(***************************************************************************)
EXTENDS Integers, Sequences, FiniteSets, TLC

\* ------------------------------------------------------------------ bounds
MaxVal == 1     \* payloads, results and faults range over 0..MaxVal
MaxFns == 3     \* longest function sequence handed to pipe
MaxOps == 3     \* longest sequence of combinator applications in SeqSpec
MaxSeqFns == 2  \* longest function sequence handed to pipe in SeqSpec
RandSteps == 6  \* Math.random() draws one of 0/RandSteps .. (RandSteps-1)/RandSteps

Val == 0 .. MaxVal

\* the concurrent example starts two TaskEithers before awaiting either
NTasks == 2

Tasks == 1 .. NTasks

VARIABLES
  pc,       \* caller: "ready" | "returned" | "thrown" (ended by a fault)
  cur,      \* the Either the caller currently holds
  op,       \* name of the helper applied last ("none" initially)
  arg,      \* the Either that helper was applied to
  fns,      \* the other arguments of that helper: plain callbacks (field
            \* plain), Either-returning callbacks (stubs), a thunk (fn),
            \* the value and error of fromNullable
  out,      \* the completion of that helper
  origin,   \* SeqSpec: the Either the sequence of applications started from
  nOps,     \* SeqSpec: number of applications so far
  invoked,  \* SeqSpec: some callback has been invoked so far
  pure,     \* SeqSpec: only map, chain and pipe have been applied so far
  task,     \* AsyncSpec: the TaskEithers created by tryCatchAsync
  main      \* ExampleSpec: the top-level code of examples/4.0.concurrent.ts

vars == <<pc, cur, op, arg, fns, out, origin, nOps, invoked, pure, task, main>>

\* ------------------------------------------------------------- completions
\* What a call does: it returns an Either (field v), returns a plain value
\* (field b), or raises a fault.
RetE(e) == [k |-> "ret", v |-> e]

RetB(b) == [k |-> "ret", b |-> b]

Raise(x) == [k |-> "throw", fault |-> x]

\* fromNullable returns an Either over JavaScript values (field j)
RetJ(e) == [k |-> "ret", j |-> e]

\* A completion is what the call did and the callbacks it invoked, in order.
Done(res, log) == [res |-> res, calls |-> log]

\* ------------------------------------------------------- JavaScript values
Undefined == [type |-> "undefined"]

Null == [type |-> "null"]

Bool(b) == [type |-> "boolean", b |-> b]

Num(n) == [type |-> "number", n |-> n]

Str(s) == [type |-> "string", s |-> s]

\* an object with own properties props (a function from names to values)
Obj(props) == [type |-> "object", props |-> props]

\* an Error instance: the only property the examples read is message
SyntaxError(message) == Obj([message |-> Str(message)])

\* The values of `A | null | undefined` handed to fromNullable: null,
\* undefined, the numbers of Val, the booleans, the empty string and another.
JsVal ==
  {Null, Undefined, Bool(FALSE), Bool(TRUE), Str(""), Str("missing")}
    \cup {Num(n) : n \in Val}

\* JavaScript's truthiness: null, undefined, 0, "" and false are falsy
ToBoolean(value) ==
  CASE value.type = "boolean" -> value.b
    [] value.type = "number" -> value.n # 0
    [] value.type = "string" -> value.s # ""
    [] value.type \in {"null", "undefined"} -> FALSE
    [] OTHER -> TRUE

\* --------------------------------------------------------------- JSON.parse
\* the character of text at index i (1-based), "" past the end
Ch(text, i) == IF i >= 1 /\ i <= Len(text) THEN SubSeq(text, i, i) ELSE ""

Digits ==
  [c \in {"0", "1", "2", "3", "4", "5", "6", "7", "8", "9"} |->
     CASE c = "0" -> 0 [] c = "1" -> 1 [] c = "2" -> 2 [] c = "3" -> 3
       [] c = "4" -> 4 [] c = "5" -> 5 [] c = "6" -> 6 [] c = "7" -> 7
       [] c = "8" -> 8 [] c = "9" -> 9]

\* what a production of the JSON grammar yields at an index: a value and the
\* index after it, or no match
Parsed(val, next) == [ok |-> TRUE, val |-> val, next |-> next]

NoParse == [ok |-> FALSE, val |-> Undefined, next |-> 0]

\* the index of the first character at or after i that is not white space
RECURSIVE SkipWs(_, _)
SkipWs(text, i) == IF Ch(text, i) = " " THEN SkipWs(text, i + 1) ELSE i

\* the index of the first '"' at or after i, 0 when there is none
RECURSIVE ClosingQuote(_, _)
ClosingQuote(text, i) ==
  IF i > Len(text) THEN 0
  ELSE IF Ch(text, i) = "\"" THEN i
  ELSE ClosingQuote(text, i + 1)

\* string: '"' characters '"' (the texts of the examples hold no escapes)
ParseString(text, i) ==
  LET j == ClosingQuote(text, i + 1)
  IN IF Ch(text, i) = "\"" /\ j # 0
       THEN Parsed(Str(SubSeq(text, i + 1, j - 1)), j + 1)
       ELSE NoParse

\* number: a run of digits with value n so far (the texts of the examples
\* hold neither sign, fraction nor exponent)
RECURSIVE ParseDigits(_, _, _)
ParseDigits(text, i, n) ==
  IF Ch(text, i) \in DOMAIN Digits
    THEN ParseDigits(text, i + 1, 10 * n + Digits[Ch(text, i)])
    ELSE Parsed(Num(n), i)

ParseNumber(text, i) ==
  IF Ch(text, i) = "0" THEN Parsed(Num(0), i + 1)
  ELSE IF Ch(text, i) \in DOMAIN Digits THEN ParseDigits(text, i, 0)
  ELSE NoParse

\* the characters of word stand in text at index i
StartsWith(text, i, word) ==
  /\ i + Len(word) - 1 <= Len(text)
  /\ SubSeq(text, i, i + Len(word) - 1) = word

ParseLiteral(text, i) ==
  IF StartsWith(text, i, "true") THEN Parsed(Bool(TRUE), i + 4)
  ELSE IF StartsWith(text, i, "false") THEN Parsed(Bool(FALSE), i + 5)
  ELSE IF StartsWith(text, i, "null") THEN Parsed(Null, i + 4)
  ELSE NoParse

\* The recursive productions.  value: white space, then an object, a string,
\* a number or a literal, chosen by the first character; members (of an
\* object whose earlier members are props): string ':' value, separated by
\* ',' and closed by '}' (arrays do not occur in the texts of the examples).
RECURSIVE Parse(_, _, _, _)
Parse(production, text, i, props) ==
  IF production = "value"
    THEN LET j == SkipWs(text, i)
             c == Ch(text, j)
         IN IF c = "{"
              THEN IF Ch(text, SkipWs(text, j + 1)) = "}"
                     THEN Parsed(Obj(<<>>), SkipWs(text, j + 1) + 1)
                     ELSE Parse("members", text, j + 1, <<>>)
            ELSE IF c = "\"" THEN ParseString(text, j)
            ELSE IF c \in DOMAIN Digits THEN ParseNumber(text, j)
            ELSE ParseLiteral(text, j)
    ELSE LET key == ParseString(text, SkipWs(text, i))
             colon == SkipWs(text, key.next)
             member == Parse("value", text, colon + 1, <<>>)
             after == SkipWs(text, member.next)
             all == (key.val.s :> member.val) @@ props
         IN IF ~key.ok \/ Ch(text, colon) # ":" \/ ~member.ok THEN NoParse
            ELSE IF Ch(text, after) = "," THEN Parse("members", text, after + 1, all)
            ELSE IF Ch(text, after) = "}" THEN Parsed(Obj(all), after + 1)
            ELSE NoParse

ParseValue(text, i) == Parse("value", text, i, <<>>)

\* JSON.parse(text): the value of the text when the whole text is one JSON
\* value, a SyntaxError fault otherwise
JSONParse(text) ==
  LET r == ParseValue(text, 1)
  IN IF r.ok /\ SkipWs(text, r.next) = Len(text) + 1
       THEN RetB(r.val)
       ELSE Raise(SyntaxError("Unexpected token"))

\* ---------------------------------------------------------------- callbacks
\* A plain callback (f of map and mapLeft, onLeft/onRight of fold, onError of
\* tryCatch) is a table from its argument to what the call does: return a
\* value or raise a fault.
PlainOut == {RetB(b) : b \in Val} \cup {Raise(MaxVal)}

PlainFns == [Val -> PlainOut]

\* A thunk (fn of tryCatch) takes no argument: it returns a value or raises.
Thunks == {RetB(b) : b \in Val} \cup {Raise(x) : x \in Val}

\* Either-returning callbacks (f of chain, fns of pipe) follow the shapes of
\* the examples: updateUserAge always succeeds with a new payload,
\* validateUser accepts or rejects its argument, safeDivide by zero always
\* fails, and a callback may raise.  `id` tells the callbacks of one pipe
\* apart, as a call-counting stub would.  The concurrent example hands pipe
\* its own parseJSON, validateUser and validateMembershipData.
Behaviours == [kind : {"update", "validate", "fail", "raise"}, k : Val]

Stub(i, b) == [id |-> i, kind |-> b.kind, k |-> b.k]

EitherFns == {Stub(1, b) : b \in Behaviours}

\* the function sequences of at most m callbacks; callback i has id i
FnSeqsUpTo(m) ==
  UNION {{[i \in 1 .. n |-> Stub(i, bs[i])] : bs \in [1 .. n -> Behaviours]}
           : n \in 0 .. m}

FnSeqs == FnSeqsUpTo(MaxFns)

\* ------------------------------------------------------------- Either core
left(value) == [_tag |-> "Left", value |-> value]

right(value) == [_tag |-> "Right", value |-> value]

\* isLeft without the comparison of the tag: true of every tagged value
isLeft_anyTagged(e) == "_tag" \in DOMAIN e

isLeft(e) == "_tag" \in DOMAIN e /\ e._tag = "Left"

isRight(e) == "_tag" \in DOMAIN e /\ e._tag = "Right"

\* Either<L, R> with L = R = Val
Either == [_tag : {"Left", "Right"}, value : Val]

\* the call f(a) of a plain callback bound to parameter `name`
Call(name, f, a) == Done(f[a], <<[fn |-> name, id |-> 0, args |-> <<a>>]>>)

\* the call fn() of a thunk
CallThunk(fn) == Done(fn, <<[fn |-> "fn", id |-> 0, args |-> <<>>]>>)

tryCatch(fn, onError) ==
  LET c == CallThunk(fn)
  IN IF c.res.k = "ret"
       THEN Done(RetE(right(c.res.b)), c.calls)
       ELSE LET h == Call("onError", onError, c.res.fault)
            IN IF h.res.k = "ret"
                 THEN Done(RetE(left(h.res.b)), c.calls \o h.calls)
                 ELSE Done(h.res, c.calls \o h.calls)

\* ------------------------------------- callbacks of examples/4.0.concurrent
\* `${value}` of a template literal, for the values the handlers format
Template(value) ==
  CASE value.type = "string" -> value.s
    [] value.type = "undefined" -> "undefined"
    [] value.type = "null" -> "null"
    [] value.type = "boolean" -> IF value.b THEN "true" ELSE "false"
    [] OTHER -> "[object Object]"

\* (error as Error).message: the property when error is an object that has
\* it, undefined for any other value but null and undefined, which raise
Message(error) ==
  IF error.type \in {"null", "undefined"}
    THEN Raise(Obj([message |-> Str("Cannot read properties of " \o error.type)]))
    ELSE RetB(IF error.type = "object" /\ "message" \in DOMAIN error.props
                THEN error.props.message
                ELSE Undefined)

\* the handler (error) => `<prefix>${(error as Error).message}` as a table on
\* the faults it can be handed
MessageHandler(prefix, faults) ==
  [error \in faults |->
     IF Message(error).k = "throw"
       THEN Message(error)
       ELSE RetB(Str(prefix \o Template(Message(error).b)))]

\* the callback (err) => `<prefix>${err}` of mapLeft as a table on the
\* payload of the Either it is handed
Annotate(prefix, e) == [err \in {e.value} |-> RetB(Str(prefix \o Template(err)))]

parseJSON(jsonString) ==
  tryCatch(JSONParse(jsonString.s),
           MessageHandler("Invalid JSON: ", {SyntaxError("Unexpected token")}))

validateUser(user) ==
  IF /\ user.type \in {"object", "null"}
     /\ user # Null
     /\ "name" \in DOMAIN user.props
     /\ "age" \in DOMAIN user.props
    THEN right(user)
    ELSE left(Str("Invalid User"))

validateMembershipData(membership) ==
  IF membership # Null /\ membership.type = "string"
    THEN right(membership)
    ELSE left(Str("Invalid membership data"))

\* what the Either-returning callback f does on argument a
apply(f, a) ==
  CASE f.kind = "update" -> RetE(right((a + f.k) % (MaxVal + 1)))
    [] f.kind = "validate" -> RetE(IF a = f.k THEN right(a) ELSE left(f.k))
    [] f.kind = "fail" -> RetE(left(f.k))
    [] f.kind = "raise" -> Raise(f.k)
    [] f.kind = "parseJSON" -> parseJSON(a).res
    [] f.kind = "validateUser" -> RetE(validateUser(a))
    [] f.kind = "validateMembershipData" -> RetE(validateMembershipData(a))

\* the call f(a) of an Either-returning callback
CallE(f, a) == Done(apply(f, a), <<[fn |-> "f", id |-> f.id, args |-> <<a>>]>>)

\* -------------------------------------------------- synchronous combinators
\* map that wraps the result of f in the wrong variant
map_wrapsLeft(e, f) ==
  IF isRight(e)
    THEN LET c == Call("f", f, e.value)
         IN IF c.res.k = "throw" THEN c ELSE Done(RetE(left(c.res.b)), c.calls)
    ELSE Done(RetE(e), <<>>)

\* map without the tag test: f is applied to a Left's payload too
map_callsOnLeft(e, f) ==
  LET c == Call("f", f, e.value)
  IN IF c.res.k = "throw" THEN c
     ELSE Done(RetE([_tag |-> e._tag, value |-> c.res.b]), c.calls)

map(e, f) ==
  IF isRight(e)
    THEN LET c == Call("f", f, e.value)
         IN IF c.res.k = "throw" THEN c ELSE Done(RetE(right(c.res.b)), c.calls)
    ELSE Done(RetE(e), <<>>)

\* mapLeft written like tryCatch: a fault of f is caught and becomes a Left
mapLeft_catchesFault(e, f) ==
  IF isLeft(e)
    THEN LET c == Call("f", f, e.value)
         IN IF c.res.k = "throw" THEN Done(RetE(left(c.res.fault)), c.calls)
                                 ELSE Done(RetE(left(c.res.b)), c.calls)
    ELSE Done(RetE(e), <<>>)

mapLeft(e, f) ==
  IF isLeft(e)
    THEN LET c == Call("f", f, e.value)
         IN IF c.res.k = "throw" THEN c ELSE Done(RetE(left(c.res.b)), c.calls)
    ELSE Done(RetE(e), <<>>)

\* chain without the tag test: f is applied to a Left's payload too
chain_callsOnLeft(e, f) == CallE(f, e.value)

\* chain that calls f but hands back its own input
chain_returnsInput(e, f) ==
  IF isRight(e) THEN Done(RetE(e), CallE(f, e.value).calls)
                ELSE Done(RetE(e), <<>>)

chain(e, f) == IF isRight(e) THEN CallE(f, e.value) ELSE Done(RetE(e), <<>>)

\* Array.prototype.reduce from index i with accumulator completion acc and
\* the callback (acc, fn) => chain(acc, fn); a fault raised by the callback
\* ends the reduction.
RECURSIVE reduce(_, _, _)
reduce(fs, i, acc) ==
  IF i > Len(fs)
    THEN acc
    ELSE LET c == chain(acc.res.v, fs[i])
         IN IF c.res.k = "throw"
              THEN Done(c.res, acc.calls \o c.calls)
              ELSE reduce(fs, i + 1, Done(c.res, acc.calls \o c.calls))

\* reduce called without its initial value: the first element is the seed
pipe_noInitialValue(initial, fs) ==
  IF fs = <<>> THEN Done(RetE(initial), <<>>)
               ELSE reduce(fs, 2, Done(RetE(initial), <<>>))

pipe(initial, fs) == reduce(fs, 1, Done(RetE(initial), <<>>))

\* fold with the handlers swapped
fold_swapped(e, onLeft, onRight) ==
  IF isRight(e) THEN Call("onLeft", onLeft, e.value)
                ELSE Call("onRight", onRight, e.value)

fold(e, onLeft, onRight) ==
  IF isRight(e) THEN Call("onRight", onRight, e.value)
                ELSE Call("onLeft", onLeft, e.value)

\* fromNullable with a truthiness test in place of the two comparisons
fromNullable_truthy(value, error) ==
  Done(RetJ(IF ToBoolean(value) THEN right(value) ELSE left(error)), <<>>)

fromNullable(value, error) ==
  Done(RetJ(IF value.type = "null" \/ value.type = "undefined"
              THEN left(error)
              ELSE right(value)),
       <<>>)

getOrElse(e, defaultValue) ==
  Done(RetB(IF isRight(e) THEN e.value ELSE defaultValue), <<>>)

\* ------------------------------------------------------------ tryCatchAsync
\* What the wrapped computation fn does: it returns a deferred that is later
\* fulfilled with k ("resolves") or rejected with fault k ("rejects"), it
\* raises fault k before returning a deferred ("raises"), or it returns a
\* deferred that never settles ("hangs").
AsyncFns ==
  [kind : {"resolves", "rejects", "raises"}, k : Val]
    \cup {[kind |-> "hangs", k |-> 0]}

\* onError handlers shaped like those of the examples,
\* (error) => `...${(error as Error).message}`: a message computed from the
\* fault, or a fault of its own on a fault d that has no message.
Handlers ==
  {[x \in Val |-> RetB((x + d) % (MaxVal + 1))] : d \in Val}
    \cup {[x \in Val |-> IF x = d THEN Raise(MaxVal) ELSE RetB(x)] : d \in Val}

\* A TaskEither that was not created yet.
NoTask ==
  [st |-> "none", fn |-> [kind |-> "none", k |-> 0],
   onError |-> [x \in Val |-> RetB(x)], inner |-> "none",
   res |-> [k |-> "none"], calls |-> <<>>, settles |-> 0,
   obs |-> [k |-> "none"]]

\* `return right(await fn())` once the awaited deferred is fulfilled with r
asyncReturn(r) == Done(RetE(right(r)), <<>>)

\* a catch block that drops onError and wraps the fault itself
asyncCatch_noHandler(onError, error) == Done(RetE(left(error)), <<>>)

\* the catch block `return left(onError(error))`; a fault of onError leaves
\* the async function uncaught
asyncCatch(onError, error) ==
  LET h == Call("onError", onError, error)
  IN IF h.res.k = "ret" THEN Done(RetE(left(h.res.b)), h.calls) ELSE h

\* The async function ends with completion c: its deferred is fulfilled with
\* the returned Either or rejected with the uncaught fault.
settled(tk, c) ==
  [tk EXCEPT !.st = IF c.res.k = "ret" THEN "fulfilled" ELSE "rejected",
             !.res = c.res,
             !.calls = tk.calls \o c.calls,
             !.settles = tk.settles + 1]

\* tryCatchAsync(fn, onError) up to its first suspension: fn is called; a
\* fault it raises is caught at once, otherwise the function suspends on the
\* deferred fn returned.
begin(fn, onError) ==
  LET tk == [NoTask EXCEPT !.fn = fn, !.onError = onError,
                           !.calls = CallThunk(fn).calls]
  IN IF fn.kind = "raises"
       THEN settled(tk, asyncCatch(onError, fn.k))
       ELSE [tk EXCEPT !.st = "pending", !.inner = "pending"]

\* a continuation without the catch block: a rejection of the awaited
\* deferred leaves the TaskEither pending
resume_noCatch(tk) ==
  IF tk.inner = "fulfilled" THEN settled(tk, asyncReturn(tk.fn.k)) ELSE tk

\* the continuation of tryCatchAsync once the awaited deferred has settled
resume(tk) ==
  IF tk.inner = "fulfilled"
    THEN settled(tk, asyncReturn(tk.fn.k))
    ELSE settled(tk, asyncCatch(tk.onError, tk.fn.k))

\* The top-level code of the concurrent example before its first statement:
\* where it stands, the Eithers it has computed, the Error it threw, the
\* call of updateUser it made, and what Math.random() returned in the timer
\* callback of each fetch (-1 before the draw).
NotStarted ==
  [at |-> "start",
   userEither |-> [_tag |-> "unset", value |-> Undefined],
   membershipEither |-> [_tag |-> "unset", value |-> Undefined],
   thrown |-> Undefined,
   updateUser |-> [called |-> FALSE, user |-> Undefined, membership |-> Undefined],
   random |-> [t \in Tasks |-> -1]]

\* ------------------------------------------------------------------ caller
\* The caller applied helper `name` to e with callbacks cbs and got the
\* completion c: the helper returned, or let a fault through to the caller.
Took(name, e, cbs, c) ==
  /\ op' = name
  /\ arg' = e
  /\ fns' = cbs
  /\ out' = c
  /\ pc' = IF c.res.k = "ret" THEN "returned" ELSE "thrown"
  /\ UNCHANGED <<cur, origin, nOps, invoked, pure, task, main>>

DoMap ==
  /\ pc = "ready"
  /\ \E f \in PlainFns : Took("map", cur, [plain |-> <<f>>], map(cur, f))

DoMapLeft ==
  /\ pc = "ready"
  /\ \E f \in PlainFns : Took("mapLeft", cur, [plain |-> <<f>>], mapLeft(cur, f))

DoChain ==
  /\ pc = "ready"
  /\ \E f \in EitherFns : Took("chain", cur, [stubs |-> <<f>>], chain(cur, f))

DoPipe ==
  /\ pc = "ready"
  /\ \E fs \in FnSeqs : Took("pipe", cur, [stubs |-> fs], pipe(cur, fs))

DoFold ==
  /\ pc = "ready"
  /\ \E onLeft \in PlainFns, onRight \in PlainFns :
       Took("fold", cur, [plain |-> <<onLeft, onRight>>],
            fold(cur, onLeft, onRight))

DoGetOrElse ==
  /\ pc = "ready"
  /\ \E d \in Val : Took("getOrElse", cur, [defaultValue |-> d], getOrElse(cur, d))

DoTryCatch ==
  /\ pc = "ready"
  /\ \E fn \in Thunks, onError \in PlainFns :
       Took("tryCatch", cur, [fn |-> fn, plain |-> <<onError>>],
            tryCatch(fn, onError))

DoFromNullable ==
  /\ pc = "ready"
  /\ \E value \in JsVal, error \in JsVal :
       Took("fromNullable", cur, [value |-> value, error |-> error],
            fromNullable(value, error))

Init ==
  /\ pc = "ready"
  /\ cur \in Either
  /\ op = "none"
  /\ arg = cur
  /\ fns = [none |-> TRUE]
  /\ out = Done(RetE(cur), <<>>)
  /\ origin = cur
  /\ nOps = 0
  /\ invoked = FALSE
  /\ pure = TRUE
  /\ task = [t \in Tasks |-> NoTask]
  /\ main = NotStarted

Next ==
  \/ DoMap
  \/ DoMapLeft
  \/ DoChain
  \/ DoPipe
  \/ DoFold
  \/ DoGetOrElse
  \/ DoTryCatch
  \/ DoFromNullable

Spec == Init /\ [][Next]_vars

\* ------------------------------------------------ sequences of applications
\* The caller feeds the Either a combinator returned into the next one, as in
\* mapLeft(pipe(e, parseJSON, validateUser), ...) of the examples.
Then(name, c) ==
  /\ pc = "ready"
  /\ nOps < MaxOps
  /\ op' = name
  /\ cur' = IF c.res.k = "ret" THEN c.res.v ELSE cur
  /\ pc' = IF c.res.k = "ret" THEN "ready" ELSE "thrown"
  /\ nOps' = nOps + 1
  /\ invoked' = (invoked \/ c.calls # <<>>)
  /\ pure' = (pure /\ name \in {"map", "chain", "pipe"})
  /\ UNCHANGED <<arg, fns, out, origin, task, main>>

ThenMap == \E f \in PlainFns : Then("map", map(cur, f))

ThenMapLeft == \E f \in PlainFns : Then("mapLeft", mapLeft(cur, f))

ThenChain == \E f \in EitherFns : Then("chain", chain(cur, f))

ThenPipe ==
  \E fs \in FnSeqsUpTo(MaxSeqFns) : Then("pipe", pipe(cur, fs))

SeqNext ==
  \/ ThenMap
  \/ ThenMapLeft
  \/ ThenChain
  \/ ThenPipe

SeqSpec == Init /\ [][SeqNext]_vars

\* ------------------------------------------------------------- TaskEithers
\* The caller creates TaskEither t: tryCatchAsync runs up to its first await.
Start(t) ==
  /\ task[t].st = "none"
  /\ \E fn \in AsyncFns, onError \in Handlers :
       task' = [task EXCEPT ![t] = begin(fn, onError)]
  /\ UNCHANGED <<pc, cur, op, arg, fns, out, origin, nOps, invoked, pure, main>>

\* The deferred that fn returned settles.
Settle(t) ==
  /\ task[t].inner = "pending"
  /\ task[t].fn.kind \in {"resolves", "rejects"}
  /\ task' = [task EXCEPT ![t].inner =
                IF task[t].fn.kind = "resolves" THEN "fulfilled" ELSE "rejected"]
  /\ UNCHANGED <<pc, cur, op, arg, fns, out, origin, nOps, invoked, pure, main>>

\* The suspended tryCatchAsync is resumed with the settled deferred.
Resume(t) ==
  /\ task[t].st = "pending"
  /\ task[t].inner \in {"fulfilled", "rejected"}
  /\ task' = [task EXCEPT ![t] = resume(task[t])]
  /\ UNCHANGED <<pc, cur, op, arg, fns, out, origin, nOps, invoked, pure, main>>

\* The consumer's `await task` completes: it yields the Either or raises the
\* fault the TaskEither was rejected with.
Await(t) ==
  /\ task[t].st \in {"fulfilled", "rejected"}
  /\ task[t].obs.k = "none"
  /\ task' = [task EXCEPT ![t].obs = task[t].res]
  /\ UNCHANGED <<pc, cur, op, arg, fns, out, origin, nOps, invoked, pure, main>>

AsyncInit ==
  /\ pc = "ready"
  /\ cur = right(0)
  /\ op = "none"
  /\ arg = cur
  /\ fns = [none |-> TRUE]
  /\ out = Done(RetE(cur), <<>>)
  /\ origin = cur
  /\ nOps = 0
  /\ invoked = FALSE
  /\ pure = TRUE
  /\ task = [t \in Tasks |-> NoTask]
  /\ main = NotStarted

AsyncNext ==
  \/ \E t \in Tasks : Start(t)
  \/ \E t \in Tasks : Settle(t)
  \/ \E t \in Tasks : Resume(t)
  \/ \E t \in Tasks : Await(t)

AsyncSpec == AsyncInit /\ [][AsyncNext]_vars

\* The event loop runs every continuation whose deferred has settled, and a
\* wrapped computation that resolves or rejects does so in the end.
FairAsyncSpec ==
  /\ AsyncSpec
  /\ \A t \in Tasks : WF_vars(Settle(t)) /\ WF_vars(Resume(t))

\* ------------------------------------------- examples/4.0.concurrent.ts
\* the two TaskEithers the example starts, by their index in `task`
userDataTask == 1

membershipDataTask == 2

\* What the timer callback of each fetch settles its deferred with: the
\* fulfilment value, the rejection fault.
fetchUserData ==
  [resolve |-> Str("{\"name\": \"Alice\", \"age\": 30, \"address\": \"123 Main St\"}"),
   reject |-> Str("Failed to fetch User data")]

fetchMembershipData ==
  [resolve |-> Str("Premium"),
   reject |-> Str("Failed to fetch membership data")]

fetch == <<fetchUserData, fetchMembershipData>>

\* the onError handlers handed to tryCatchAsync with the two fetches
fetchError ==
  <<MessageHandler("Error fetching User data: ", {fetchUserData.reject}),
    MessageHandler("Error fetching membership data: ", {fetchMembershipData.reject})>>

\* a TaskEither of the example that was not created yet
NoFetch ==
  [NoTask EXCEPT !.fn = [kind |-> "none", k |-> Undefined], !.onError = <<>>]

\* mapLeft(p, (err) => `<prefix>${err}`) for what the pipe call p completed
\* with; a fault of the pipe call ends the statement
Annotated(p, prefix) ==
  IF p.res.k = "throw" THEN p ELSE mapLeft(p.res.v, Annotate(prefix, p.res.v))

\* mapLeft(pipe(await task, parseJSON, validate), (err) => `<prefix>${err}`)
\* where the await completed as r: a rejected task ends the statement
Processed(r, validate, prefix) ==
  IF r.k = "throw"
    THEN Done(r, <<>>)
    ELSE Annotated(pipe(r.v, <<Stub(1, [kind |-> "parseJSON", k |-> 0]),
                               Stub(2, [kind |-> validate, k |-> 0])>>),
                   prefix)

\* The top-level code from the statement that completed as c (the Either of
\* constant `name`) to its next await: an uncaught fault, the throw of
\* `if (isLeft(...)) throw new Error(...)`, or the await `next`, before which
\* updateUserTaskEither calls updateUser on the two Right payloads.
Checked(name, c, next) ==
  IF c.res.k = "throw"
    THEN [main EXCEPT !.at = "thrown", !.thrown = c.res.fault]
  ELSE IF isLeft(c.res.v)
    THEN [main EXCEPT ![name] = c.res.v,
                      !.at = "thrown",
                      !.thrown = Obj([message |-> c.res.v.value])]
  ELSE IF next = "awaitUpdate"
    THEN [main EXCEPT ![name] = c.res.v,
                      !.at = next,
                      !.updateUser = [called |-> TRUE,
                                      user |-> main.userEither.value,
                                      membership |-> c.res.v.value]]
  ELSE [main EXCEPT ![name] = c.res.v, !.at = next]

\* The module runs up to its first await: both fetches are started, each
\* inside tryCatchAsync, whose deferred settles in a timer callback later.
Launch ==
  /\ main.at = "start"
  /\ task' = [t \in Tasks |->
                begin([kind |-> "timer", k |-> Undefined], fetchError[t])]
  /\ main' = [main EXCEPT !.at = "awaitUser"]
  /\ UNCHANGED <<pc, cur, op, arg, fns, out, origin, nOps, invoked, pure>>

\* A job of the microtask queue is waiting: the continuation of a
\* tryCatchAsync whose deferred has settled, or that of the top-level code
\* whose awaited TaskEither has settled.
MicrotaskPending ==
  \/ \E t \in Tasks :
       task[t].st = "pending" /\ task[t].inner \in {"fulfilled", "rejected"}
  \/ /\ main.at = "awaitUser"
     /\ task[userDataTask].st \in {"fulfilled", "rejected"}
  \/ /\ main.at = "awaitMembership"
     /\ task[membershipDataTask].st \in {"fulfilled", "rejected"}

\* The timer callback of fetch t, run once the microtask queue is empty:
\* success is Math.random() > 0.5, and the deferred is fulfilled or rejected
\* accordingly.
TimerFires(t) ==
  /\ main.at \notin {"start", "thrown"}
  /\ ~MicrotaskPending
  /\ task[t].inner = "pending"
  /\ \E r \in 0 .. RandSteps - 1 :
       LET success == 2 * r > RandSteps
       IN /\ task' = [task EXCEPT
                        ![t].fn = IF success
                                    THEN [kind |-> "resolves", k |-> fetch[t].resolve]
                                    ELSE [kind |-> "rejects", k |-> fetch[t].reject],
                        ![t].inner = IF success THEN "fulfilled" ELSE "rejected"]
          /\ main' = [main EXCEPT !.random[t] = r]
  /\ UNCHANGED <<pc, cur, op, arg, fns, out, origin, nOps, invoked, pure>>

\* tryCatchAsync of fetch t is resumed, unless the uncaught Error has ended
\* the process
Continue(t) == main.at # "thrown" /\ Resume(t)

\* `await userDataTask` completes: userEither is computed, and the module
\* throws on a Left or goes on to `await membershipDataTask`.
AfterUserData ==
  /\ main.at = "awaitUser"
  /\ task[userDataTask].st \in {"fulfilled", "rejected"}
  /\ task' = [task EXCEPT ![userDataTask].obs = task[userDataTask].res]
  /\ main' = Checked("userEither",
                     Processed(task[userDataTask].res, "validateUser",
                               "Unable to process User: "),
                     "awaitMembership")
  /\ UNCHANGED <<pc, cur, op, arg, fns, out, origin, nOps, invoked, pure>>

\* `await membershipDataTask` completes: membershipEither is computed, and
\* the module throws on a Left or calls updateUser inside tryCatchAsync and
\* awaits it.
AfterMembershipData ==
  /\ main.at = "awaitMembership"
  /\ task[membershipDataTask].st \in {"fulfilled", "rejected"}
  /\ task' = [task EXCEPT ![membershipDataTask].obs = task[membershipDataTask].res]
  /\ main' = Checked("membershipEither",
                     Processed(task[membershipDataTask].res,
                               "validateMembershipData",
                               "Unable to process membership data: "),
                     "awaitUpdate")
  /\ UNCHANGED <<pc, cur, op, arg, fns, out, origin, nOps, invoked, pure>>

ExampleInit ==
  /\ pc = "ready"
  /\ cur = right(0)
  /\ op = "none"
  /\ arg = cur
  /\ fns = [none |-> TRUE]
  /\ out = Done(RetE(cur), <<>>)
  /\ origin = cur
  /\ nOps = 0
  /\ invoked = FALSE
  /\ pure = TRUE
  /\ task = [t \in Tasks |-> NoFetch]
  /\ main = NotStarted

ExampleNext ==
  \/ Launch
  \/ \E t \in Tasks : TimerFires(t)
  \/ \E t \in Tasks : Continue(t)
  \/ AfterUserData
  \/ AfterMembershipData

ExampleSpec == ExampleInit /\ [][ExampleNext]_vars

TypeOK ==
  /\ pc \in {"ready", "returned", "thrown"}
  /\ cur \in Either
  /\ arg \in Either
  /\ out.res.k \in {"ret", "throw"}
  /\ \A t \in Tasks :
       /\ task[t].st \in {"none", "pending", "fulfilled", "rejected"}
       /\ task[t].settles \in 0 .. 1
       /\ main.random[t] \in -1 .. RandSteps - 1
  /\ main.at \in {"start", "awaitUser", "awaitMembership", "awaitUpdate", "thrown"}

\* ================================================================== claims
\* what the j-th invoked callback of the last pipe/chain did when invoked
Did(j) == apply(fns.stubs[out.calls[j].id], out.calls[j].args[1])

\* the log entries of `log` that are calls of the callback bound to `name`
CallsOf(log, name) == SelectSeq(log, LAMBDA c : c.fn = name)

\* C1: in pipe(initial, f1..fn), if initial is a Left no function is invoked
\* and that Left is returned; if an invoked fi returns a Left, no fj with
\* j > i is invoked and pipe returns exactly that Left.
C1_PipeShortCircuits ==
  op = "pipe" =>
    /\ isLeft(arg) => out = Done(RetE(arg), <<>>)
    /\ \A j \in 1 .. Len(out.calls) :
         (Did(j).k = "ret" /\ isLeft(Did(j).v)) =>
           /\ \A m \in 1 .. Len(out.calls) : out.calls[m].id <= out.calls[j].id
           /\ out.res = Did(j)

\* f1 of three functions returned a Left; f2 and f3 were skipped
C1_Witness ==
  /\ op = "pipe"
  /\ Len(fns.stubs) = 3
  /\ isRight(arg)
  /\ Len(out.calls) = 1
  /\ out.calls[1].id = 1
  /\ out.res.k = "ret"
  /\ isLeft(out.res.v)
  /\ fns.stubs[2].kind = "update"

\* C3 (as claimed): tryCatch(fn, onError) invokes fn exactly once with no
\* arguments and always returns an Either without raising: Right(result),
\* onError not invoked, when fn returns; Left(onError(fault)) when fn raises.
C3_TryCatchAlwaysReturns ==
  op = "tryCatch" =>
    /\ out.res.k = "ret"
    /\ CallsOf(out.calls, "fn") = <<[fn |-> "fn", id |-> 0, args |-> <<>>]>>
    /\ fns.fn.k = "ret" =>
         /\ out.res.v = right(fns.fn.b)
         /\ CallsOf(out.calls, "onError") = <<>>
    /\ fns.fn.k = "throw" =>
         /\ CallsOf(out.calls, "onError")
              = <<[fn |-> "onError", id |-> 0, args |-> <<fns.fn.fault>>]>>
         /\ fns.plain[1][fns.fn.fault].k = "ret"
         /\ out.res.v = left(fns.plain[1][fns.fn.fault].b)

\* C6: chain(Left(l), f) invokes f zero times and returns the same Left;
\* chain(Right(a), f) invokes f exactly once, on a, and completes as f(a)
\* does (f(a) may be a Left).
C6_Chain ==
  op = "chain" =>
    /\ isLeft(arg) => out = Done(RetE(arg), <<>>)
    /\ isRight(arg) =>
         /\ out.calls
              = <<[fn |-> "f", id |-> fns.stubs[1].id, args |-> <<arg.value>>]>>
         /\ out.res = apply(fns.stubs[1], arg.value)

\* chain was applied to a Left with a function that would have succeeded
C6_Witness ==
  /\ op = "chain"
  /\ isLeft(arg)
  /\ fns.stubs[1].kind = "update"
  /\ out.res.k = "ret"

\* the left-nested call chain(...chain(chain(initial, fs[1]), fs[2])..., fs[n]),
\* evaluated innermost call first
RECURSIVE chainNested(_, _)
chainNested(initial, fs) ==
  IF fs = <<>>
    THEN Done(RetE(initial), <<>>)
    ELSE LET inner == chainNested(initial, SubSeq(fs, 1, Len(fs) - 1))
         IN IF inner.res.k = "throw"
              THEN inner
              ELSE LET c == chain(inner.res.v, fs[Len(fs)])
                   IN Done(c.res, inner.calls \o c.calls)

\* C7: pipe(initial, ...fns) completes with the same value and the same
\* callback invocations in the same order as the left-nested chain, for the
\* empty sequence too; the functions are invoked left to right from the
\* first, each with exactly one argument, the previous step's Right payload.
C7_PipeIsNestedChain ==
  op = "pipe" =>
    /\ out = chainNested(arg, fns.stubs)
    /\ \A j \in 1 .. Len(out.calls) :
         /\ out.calls[j].id = j
         /\ out.calls[j].args
              = <<IF j = 1 THEN arg.value ELSE Did(j - 1).v.value>>

\* three functions ran, the second on a payload the first had changed
C7_Witness ==
  /\ op = "pipe"
  /\ Len(fns.stubs) = 3
  /\ Len(out.calls) = 3
  /\ out.calls[2].args # out.calls[1].args
  /\ out.res.k = "ret"
  /\ isRight(out.res.v)

\* C9: fold(e, onLeft, onRight) invokes exactly one handler exactly once:
\* onLeft on l for Left(l), onRight on a for Right(a), and completes as that
\* handler does.
C9_Fold ==
  op = "fold" =>
    /\ isLeft(arg) =>
         out = Done(fns.plain[1][arg.value],
                    <<[fn |-> "onLeft", id |-> 0, args |-> <<arg.value>>]>>)
    /\ isRight(arg) =>
         out = Done(fns.plain[2][arg.value],
                    <<[fn |-> "onRight", id |-> 0, args |-> <<arg.value>>]>>)

\* fold of a Left whose two handlers disagree on the payload
C9_Witness ==
  /\ op = "fold"
  /\ isLeft(arg)
  /\ out.res.k = "ret"
  /\ fns.plain[2][arg.value] # fns.plain[1][arg.value]

\* the identity function and x => g(f(x)) as plain callbacks
Id == [x \in Val |-> RetB(x)]

Compose(g, f) == [x \in Val |-> IF f[x].k = "throw" THEN f[x] ELSE g[f[x].b]]

\* map(r, g) applied to what a completed call returned; a fault ends both
MapAfter(c, g) == IF c.res.k = "throw" THEN c ELSE map(c.res.v, g)

\* C10: functor laws of map, for the Either e and function f of the last
\* map call and every function g: map(e, id) = e, and map(map(e, f), g)
\* = map(e, x => g(f(x))), tag and payload.
C10_FunctorLaws ==
  op = "map" =>
    /\ fns.plain[1] = Id => out.res = RetE(arg)
    /\ \A g \in PlainFns :
         MapAfter(out, g).res = map(arg, Compose(g, fns.plain[1])).res

\* map of a Right with a function that changes the payload
C10_Witness ==
  /\ op = "map"
  /\ isRight(arg)
  /\ out.res.k = "ret"
  /\ out.res.v # arg

\* C8: starting from Left(l), after any sequence of map, chain and pipe
\* applications the caller still holds Left(l), no callback was invoked
\* and no fault was raised.
C8_LeftFlowsUnchanged ==
  (isLeft(origin) /\ pure) =>
    (cur = origin /\ ~invoked /\ pc = "ready")

\* a full-length sequence of applications to a Left, ending with pipe
C8_Witness ==
  /\ isLeft(origin)
  /\ pure
  /\ nOps = MaxOps
  /\ op = "pipe"

\* C2 (as claimed): the deferred returned by tryCatchAsync never settles by
\* fault, so a consumer awaiting it only ever observes an Either.
C2_NeverRejects ==
  \A t \in Tasks : task[t].st # "rejected" /\ task[t].obs.k # "throw"

IsSettled(t) == task[t].st \in {"fulfilled", "rejected"}

\* C5 (as claimed): a TaskEither constructed by tryCatchAsync always
\* eventually settles, and never more than once.
C5_AlwaysSettlesOnce ==
  \A t \in Tasks :
    /\ (task[t].st # "none") ~> IsSettled(t)
    /\ [](task[t].settles <= 1)

\* C5 (amended): a TaskEither settles at most once, and what its consumer
\* observed stays what it settled with; it eventually settles whenever fn
\* raised or the deferred fn returned settles, and it stays pending while
\* that deferred never settles.
C5_SettlesOnceIfInnerSettles ==
  \A t \in Tasks :
    /\ (task[t].st # "none" /\ task[t].fn.kind # "hangs") ~> IsSettled(t)
    /\ [](task[t].settles <= 1)
    /\ [](IsSettled(t) <=> task[t].settles = 1)
    /\ []((task[t].st # "none" /\ task[t].fn.kind = "hangs")
            => task[t].st = "pending")
    /\ [](task[t].obs.k # "none" => task[t].obs = task[t].res)

\* one TaskEither settled once after a rejection while the other, whose
\* deferred never settles, is still pending
C5_Witness ==
  \E t, u \in Tasks :
    /\ task[t].fn.kind = "rejects"
    /\ task[t].settles = 1
    /\ task[t].obs.k # "none"
    /\ task[u].fn.kind = "hangs"
    /\ task[u].st = "pending"
\* what the j-th callback invocation of the last combinator did
Outcome(j) ==
  IF "stubs" \in DOMAIN fns
    THEN Did(j)
    ELSE fns.plain[IF out.calls[j].fn = "onRight" THEN 2 ELSE 1][out.calls[j].args[1]]

\* C11: a fault raised by a callback of map, mapLeft, chain, pipe or fold is
\* not converted into a Left nor swallowed: the combinator invokes nothing
\* after it, returns no value, and the caller gets that very fault; and the
\* only fault a combinator lets through is one a callback raised.
C11_FaultsPropagate ==
  op \in {"map", "mapLeft", "chain", "pipe", "fold"} =>
    /\ \A j \in 1 .. Len(out.calls) :
         Outcome(j).k = "throw" =>
           /\ j = Len(out.calls)
           /\ out.res = Outcome(j)
           /\ pc = "thrown"
    /\ out.res.k = "throw" =>
         /\ out.calls # <<>>
         /\ Outcome(Len(out.calls)) = out.res

\* the second of three functions of a pipe raised: the third never ran and
\* the caller was ended by the fault
C11_Witness ==
  /\ op = "pipe"
  /\ Len(fns.stubs) = 3
  /\ Len(out.calls) = 2
  /\ fns.stubs[2].kind = "raise"
  /\ out.res = Raise(fns.stubs[2].k)
  /\ pc = "thrown"
\* the Either that TaskEither tk's own wrapped computation and handler
\* determine: Right(v) for a fulfilment with v, Left(onError(fault)) otherwise
OwnEither(tk) ==
  IF tk.fn.kind = "resolves"
    THEN RetE(right(tk.fn.k))
    ELSE LET h == tk.onError[tk.fn.k]
         IN IF h.k = "ret" THEN RetE(left(h.b)) ELSE [k |-> "none"]

\* C12 (as claimed): once two tryCatchAsync operations were started, on
\* computations that complete, each wrapped computation was initiated by the
\* call itself, and under every
\* interleaving of their completions and of the awaits each TaskEither
\* settles at most once, with an Either, the one determined by its own
\* wrapped computation, whatever the other one did.
C12_ConcurrentTasksIndependent ==
  (\A u \in Tasks : task[u].st # "none" /\ task[u].fn.kind # "hangs") =>
    \A t \in Tasks :
      /\ CallsOf(task[t].calls, "fn") = <<[fn |-> "fn", id |-> 0, args |-> <<>>]>>
      /\ task[t].settles <= 1
      /\ IsSettled(t) =>
           /\ task[t].settles = 1
           /\ task[t].res.k = "ret"
           /\ task[t].res = OwnEither(task[t])
      /\ task[t].obs.k # "none" => task[t].obs = OwnEither(task[t])
\* C14: fromNullable(value, error) returns Left(error) if and only if value
\* is null or undefined; every other value, 0, the empty string and false
\* included, comes back as Right(value), unchanged.  No callback is involved.
C14_FromNullable ==
  op = "fromNullable" =>
    /\ out.calls = <<>>
    /\ out.res.k = "ret"
    /\ isLeft(out.res.j) <=> fns.value.type \in {"null", "undefined"}
    /\ isLeft(out.res.j) => out.res.j = left(fns.error)
    /\ ~isLeft(out.res.j) => out.res.j = right(fns.value)

\* the falsy number 0 came back as Right(0) although the error is truthy
C14_Witness ==
  /\ op = "fromNullable"
  /\ fns.value = Num(0)
  /\ out.res.j = right(fns.value)
  /\ ToBoolean(fns.error)
\* exactly one of the two tag predicates is true of e
OneVariant(e) == (isLeft(e) \/ isRight(e)) /\ ~(isLeft(e) /\ isRight(e))

\* C13: exactly one of isLeft(e) and isRight(e) is true of every Either that
\* left, right or a helper of the library produced; isRight(right(r)) is true
\* and isLeft(right(r)) false for all r, isLeft(left(l)) true and
\* isRight(left(l)) false for all l.
C13_ExactlyOneVariant ==
  /\ \A x \in Val :
       /\ isRight(right(x)) /\ ~isLeft(right(x))
       /\ isLeft(left(x)) /\ ~isRight(left(x))
  /\ \A x \in JsVal :
       /\ isRight(right(x)) /\ ~isLeft(right(x))
       /\ isLeft(left(x)) /\ ~isRight(left(x))
  /\ OneVariant(cur)
  /\ OneVariant(arg)
  /\ (out.res.k = "ret" /\ "v" \in DOMAIN out.res) => OneVariant(out.res.v)
  /\ (out.res.k = "ret" /\ "j" \in DOMAIN out.res) => OneVariant(out.res.j)

\* tryCatch produced a Left from a Right the caller held
C13_Witness ==
  /\ op = "tryCatch"
  /\ isRight(cur)
  /\ out.res.k = "ret"
  /\ isLeft(out.res.v)
  /\ ~isRight(out.res.v)
\* C15 (as claimed): in the concurrent example, once the top-level code is
\* past `await membershipDataTask` and both fetches resolved successfully,
\* the membership level went through pipe(parseJSON, validateMembershipData)
\* as a Right, no Error was thrown, and updateUser was called with the parsed
\* user and that membership level.
C15_MembershipReachesUpdate ==
  (/\ task[userDataTask].fn.kind = "resolves"
   /\ task[membershipDataTask].fn.kind = "resolves"
   /\ main.at \notin {"start", "awaitUser", "awaitMembership"}) =>
    /\ main.at = "awaitUpdate"
    /\ isRight(main.membershipEither)
    /\ main.updateUser
         = [called |-> TRUE,
            user |-> main.userEither.value,
            membership |-> fetchMembershipData.resolve]
====
